---- MODULE Spec2Model ----
(***************************************************************************)
(* Model of src/utils/api-client.js: the k6 helper library of the Travel   *)
(* Planner load tests.  Each virtual user (VU) runs one helper at a time:  *)
(* the helper calls makeRequest, which sends one HTTP request, waits for   *)
(* the response, records the api_errors and optimistic_lock_conflicts      *)
(* metrics and hands the response back to the helper, which checks the     *)
(* body and returns a value (or lets an exception escape).                 *)
(*                                                                         *)
(* JavaScript values are tagged records: [t |-> "number", v |-> 1],        *)
(* [t |-> "string", v |-> <<"a","b">>] (a string is its sequence of        *)
(* characters), [t |-> "array", v |-> <<...>>], [t |-> "object", f |->     *)
(* record of properties], null, undefined and booleans.                    *)
(***************************************************************************)
EXTENDS Integers, Sequences, FiniteSets, TLC

\* ------------------------------------------------------------------ bounds
\* Number of helper invocations explored in one behaviour.
MaxCalls == 2
\* Number of virtual users running helpers in parallel (SpecVU).
NumVUs == 2

\* ------------------------------------------------------- JavaScript values
Null == [t |-> "null"]
Undefined == [t |-> "undefined"]
Num(n) == [t |-> "number", v |-> n]
Str(s) == [t |-> "string", v |-> s]
Bool(b) == [t |-> "boolean", v |-> b]
Arr(s) == [t |-> "array", v |-> s]
Obj(f) == [t |-> "object", f |-> f]
\* What the caller observes when an exception escapes the helper.
Thrown(e) == [t |-> "throw", e |-> e]

\* Strict equality (===) of two values of the kinds above.
StrictEq(a, b) == a.t = b.t /\ a = b

\* `value.key`: reading a property of null or undefined raises a TypeError.
PropThrows(value) == value.t \in {"null", "undefined"}

\* `value.key` for a value that is not null or undefined.
Prop(value, key) ==
  IF value.t = "object" /\ key \in DOMAIN value.f THEN value.f[key] ELSE Undefined

\* Array.isArray(value)
Array_isArray(value) == value.t = "array"

\* JavaScript truthiness of the values the model uses.
Truthy(value) ==
  CASE value.t \in {"null", "undefined"} -> FALSE
    [] value.t = "boolean" -> value.v
    [] value.t = "number" -> value.v # 0
    [] value.t = "string" -> Len(value.v) > 0
    [] OTHER -> TRUE

\* String(value), as RegExp.prototype.test applies it to its argument.
JS_String(value) ==
  CASE value.t = "string" -> value.v
    [] value.t = "null" -> <<"n","u","l","l">>
    [] OTHER -> <<"u","n","d","e","f","i","n","e","d">>

\* String.prototype.includes
String_includes(s, sub) ==
  \E i \in 0..(Len(s) - Len(sub)) : SubSeq(s, i + 1, i + Len(sub)) = sub

\* ------------------------------------------------------------- identifiers
PlanA == <<"3","f","2","b","8","c","1","a","-","9","d","4","e","-","4","a","6","b","-","8","c","7","d","-","1","e","2","f","3","a","4","b","5","c","6","d">>
PlanB == <<"0","a","1","b","2","c","3","d","-","4","e","5","f","-","4","a","7","b","-","9","c","8","d","-","0","e","1","f","2","a","3","b","4","c","5","d">>
LocA == <<"7","c","9","e","6","6","7","9","-","7","4","2","5","-","4","0","d","e","-","9","4","4","b","-","e","0","7","f","c","1","f","9","0","a","e","7">>
\* A well-formed UUID whose version digit is 1, not 4.
UuidV1 == <<"3","f","2","b","8","c","1","a","-","9","d","4","e","-","1","a","6","b","-","8","c","7","d","-","1","e","2","f","3","a","4","b","5","c","6","d">>
\* PlanA written in upper case.
UuidUpper == <<"3","F","2","B","8","C","1","A","-","9","D","4","E","-","4","A","6","B","-","8","C","7","D","-","1","E","2","F","3","A","4","B","5","C","6","D">>
PlanIds == {PlanA, PlanB}

HexLower == {"0","1","2","3","4","5","6","7","8","9","a","b","c","d","e","f"}

\* /^[0-9a-f]{8}-[0-9a-f]{4}-[0-9a-f]{4}-[0-9a-f]{4}-[0-9a-f]{12}$/.test(s)
UuidRegExp_test(s) ==
  /\ Len(s) = 36
  /\ \A i \in 1..36 : IF i \in {9, 14, 19, 24} THEN s[i] = "-" ELSE s[i] \in HexLower

\* ------------------------------------------------- response bodies (texts)
BodyHtml == "<html>502 Bad Gateway</html>"
BodyNull == "null"
BodyEmptyList == "[]"
BodyPlanV1 == "{\"id\":\"3f2b8c1a-9d4e-4a6b-8c7d-1e2f3a4b5c6d\",\"title\":\"T\",\"version\":1,\"locations\":[]}"
BodyPlanV2 == "{\"id\":\"3f2b8c1a-9d4e-4a6b-8c7d-1e2f3a4b5c6d\",\"title\":\"T\",\"version\":2,\"locations\":[]}"
BodyPlanUuidV1 == "{\"id\":\"3f2b8c1a-9d4e-1a6b-8c7d-1e2f3a4b5c6d\",\"title\":\"T\",\"version\":1,\"locations\":[]}"
BodyPlanUpper == "{\"id\":\"3F2B8C1A-9D4E-4A6B-8C7D-1E2F3A4B5C6D\",\"title\":\"T\",\"version\":1,\"locations\":[]}"
BodyLocation == "{\"id\":\"7c9e6679-7425-40de-944b-e07fc1f90ae7\",\"name\":\"L\",\"visit_order\":1,\"travel_plan_id\":\"3f2b8c1a-9d4e-4a6b-8c7d-1e2f3a4b5c6d\"}"
BodyHealthy == "{\"status\":\"healthy\"}"
BodyValidation == "{\"error\":\"Validation error\"}"
BodyConflict == "{\"error\":\"Conflict\",\"current_version\":2}"

Bodies ==
  { BodyHtml, BodyNull, BodyEmptyList, BodyPlanV1, BodyPlanV2, BodyPlanUuidV1,
    BodyPlanUpper, BodyLocation, BodyHealthy, BodyValidation, BodyConflict }

Statuses == {200, 201, 204, 400, 404, 409, 500}

PlanObject(id, version) ==
  Obj([id |-> Str(id), title |-> Str(<<"T">>), version |-> Num(version),
       locations |-> Arr(<<>>)])

\* JSON.parse(text) raises a SyntaxError.
JSON_parse_throws(text) == text = BodyHtml

\* JSON.parse(text) for the response texts above that are valid JSON.
JSON_parse(text) ==
  CASE text = BodyNull -> Null
    [] text = BodyEmptyList -> Arr(<<>>)
    [] text = BodyPlanV1 -> PlanObject(PlanA, 1)
    [] text = BodyPlanV2 -> PlanObject(PlanA, 2)
    [] text = BodyPlanUuidV1 -> PlanObject(UuidV1, 1)
    [] text = BodyPlanUpper -> PlanObject(UuidUpper, 1)
    [] text = BodyLocation ->
         Obj([id |-> Str(LocA), name |-> Str(<<"L">>), visit_order |-> Num(1),
              travel_plan_id |-> Str(PlanA)])
    [] text = BodyHealthy -> Obj([status |-> Str(<<"h","e","a","l","t","h","y">>)])
    [] text = BodyValidation ->
         Obj([error |-> Str(<<"V","a","l","i","d","a","t","i","o","n"," ","e","r","r","o","r">>)])
    [] text = BodyConflict ->
         Obj([error |-> Str(<<"C","o","n","f","l","i","c","t">>), current_version |-> Num(2)])

\* ------------------------------------------------------------ k6 check()
\* check(value, {name: callback, ...}): every callback runs; a callback that
\* raises ("X") aborts check with that exception, otherwise the result is
\* true ("T") exactly when every callback passed.
check(outcomes) ==
  IF \E i \in 1..Len(outcomes) : outcomes[i] = "X" THEN "X"
  ELSE IF \A i \in 1..Len(outcomes) : outcomes[i] = "T" THEN "T" ELSE "F"

Outcome(b) == IF b THEN "T" ELSE "F"

\* ------------------------------------------------------------- endpoints
ENDPOINTS_TRAVEL_PLANS == [template |-> "/travel-plans", id |-> <<>>]
ENDPOINTS_TRAVEL_PLAN_BY_ID(id) == [template |-> "/travel-plans/{id}", id |-> id]
ENDPOINTS_LOCATIONS_FOR_PLAN(id) == [template |-> "/travel-plans/{id}/locations", id |-> id]
ENDPOINTS_LOCATION_BY_ID(id) == [template |-> "/locations/{id}", id |-> id]
ENDPOINTS_HEALTH == [template |-> "/health", id |-> <<>>]

\* ------------------------------------------------- helper invocations
PlanData == Obj([title |-> Str(<<"T">>)])
UpdateData(version) == Obj([title |-> Str(<<"U">>), version |-> Num(version)])
LocationData == Obj([name |-> Str(<<"L">>)])
InvalidData == Obj([title |-> Str(<<>>)])
Versions == {1, 2}
Methods == {"GET", "POST", "PUT"}

Invocation(fn, id, data, method) == [fn |-> fn, id |-> id, data |-> data, method |-> method]

\* The helper calls a scenario script can make.
Invocations ==
  {Invocation("createTravelPlan", <<>>, PlanData, "")}
  \cup {Invocation("getTravelPlan", id, Null, "") : id \in PlanIds}
  \cup {Invocation("verifyPlanDeleted", id, Null, "") : id \in PlanIds}
  \cup {Invocation("updateTravelPlan", id, UpdateData(v), "") : id \in PlanIds, v \in Versions}
  \cup {Invocation("deleteTravelPlan", id, Null, "") : id \in PlanIds}
  \cup {Invocation("addLocation", id, LocationData, "") : id \in PlanIds}
  \cup {Invocation("updateLocation", LocA, LocationData, "")}
  \cup {Invocation("deleteLocation", LocA, Null, "")}
  \cup {Invocation("listTravelPlans", <<>>, Null, "")}
  \cup {Invocation("checkHealth", <<>>, Null, "")}
  \cup {Invocation("testValidation", <<>>, d, m) : d \in {InvalidData, Null}, m \in Methods}

\* The reduced inputs of the parallel specification SpecVU.
InvocationsVU ==
  { Invocation("getTravelPlan", PlanA, Null, ""),
    Invocation("updateTravelPlan", PlanA, UpdateData(1), ""),
    Invocation("deleteTravelPlan", PlanA, Null, "") }
StatusesVU == {200, 409}
BodiesVU == {BodyHtml, BodyPlanV2}

Args(method, url, body, expectedStatuses, operationType) ==
  [method |-> method, url |-> url, body |-> body,
   expectedStatuses |-> expectedStatuses, operationType |-> operationType]

\* The arguments each helper passes to makeRequest.
HelperArgs(c) ==
  CASE c.fn = "createTravelPlan" ->
         Args("POST", ENDPOINTS_TRAVEL_PLANS, c.data, Num(201), "write")
    [] c.fn = "getTravelPlan" ->
         Args("GET", ENDPOINTS_TRAVEL_PLAN_BY_ID(c.id), Null, Num(200), "read")
    [] c.fn = "verifyPlanDeleted" ->
         Args("GET", ENDPOINTS_TRAVEL_PLAN_BY_ID(c.id), Null, Num(404), "read")
    [] c.fn = "updateTravelPlan" ->
         Args("PUT", ENDPOINTS_TRAVEL_PLAN_BY_ID(c.id), c.data,
              Arr(<<Num(200), Num(409)>>), "write")
    [] c.fn = "deleteTravelPlan" ->
         Args("DELETE", ENDPOINTS_TRAVEL_PLAN_BY_ID(c.id), Null, Num(204), "write")
    [] c.fn = "addLocation" ->
         Args("POST", ENDPOINTS_LOCATIONS_FOR_PLAN(c.id), c.data, Num(201), "write")
    [] c.fn = "updateLocation" ->
         Args("PUT", ENDPOINTS_LOCATION_BY_ID(c.id), c.data,
              Arr(<<Num(200), Num(409)>>), "write")
    [] c.fn = "deleteLocation" ->
         Args("DELETE", ENDPOINTS_LOCATION_BY_ID(c.id), Null, Num(204), "write")
    [] c.fn = "listTravelPlans" ->
         Args("GET", ENDPOINTS_TRAVEL_PLANS, Null, Num(200), "read")
    [] c.fn = "checkHealth" ->
         Args("GET", ENDPOINTS_HEALTH, Null, Num(200), "read")
    [] c.fn = "testValidation" ->
         Args(c.method, ENDPOINTS_TRAVEL_PLANS, c.data, Num(400), "write")

\* ------------------------------------------------------------ makeRequest
\* const statuses = Array.isArray(expectedStatuses) ? expectedStatuses : [expectedStatuses]
makeRequest_statuses(expectedStatuses) ==
  IF Array_isArray(expectedStatuses) THEN expectedStatuses.v ELSE <<expectedStatuses>>

\* statuses.includes(status)
Array_includes(statuses, value) ==
  \E i \in 1..Len(statuses) : StrictEq(statuses[i], value)

\* The request http.request receives: the payload is sent only for a truthy body.
makeRequest_request(a) ==
  [method |-> a.method, url |-> a.url, hasPayload |-> Truthy(a.body),
   tags |-> [type |-> a.operationType],
   expectedStatuses |-> makeRequest_statuses(a.expectedStatuses)]

\* The samples makeRequest adds to errorRate for a response.
makeRequest_errorSamples_onlyErrors(statuses, r) ==
  IF Array_includes(statuses, Num(r.status)) THEN <<>> ELSE <<1>>

makeRequest_errorSamples_inverted(statuses, r) ==
  IF Array_includes(statuses, Num(r.status)) THEN <<1>> ELSE <<0>>

makeRequest_errorSamples(statuses, r) ==
  LET statusCheck == check(<<Outcome(Array_includes(statuses, Num(r.status)))>>)
  IN IF statusCheck # "T" THEN <<1>> ELSE <<0>>

\* The samples makeRequest adds to conflictRate for a response.
makeRequest_conflictSamples_unexpectedOnly(statuses, r) ==
  IF r.status = 409 /\ ~Array_includes(statuses, Num(r.status)) THEN <<1>> ELSE <<>>

makeRequest_conflictSamples(statuses, r) ==
  IF r.status = 409 THEN <<1>> ELSE <<>>

\* --------------------------------------------------------- entity helpers
\* Each <helper>_return(c, r) is the value the helper hands to its caller for
\* the invocation c and the response r that makeRequest returned, or
\* Thrown(e) when an exception escapes the helper.

\* A callback of the form: if (r.status !== happy) return false;
\* try { body = JSON.parse(r.body); return <test of body.key> } catch (e) { return false }
\* passed is the test's result for a body that parsed and is not null.
GuardedBodyCheck(r, happy, passed) ==
  IF r.status # happy THEN "F"
  ELSE IF JSON_parse_throws(r.body) THEN "F"
  ELSE IF PropThrows(JSON_parse(r.body)) THEN "F"
  ELSE Outcome(passed)

\* The same callback without try/catch: the exception escapes.  outcome is
\* the test's outcome for a body that parsed and is not null.
UnguardedBodyCheck(r, happy, outcome) ==
  IF r.status # happy THEN "F"
  ELSE IF JSON_parse_throws(r.body) THEN "X"
  ELSE IF PropThrows(JSON_parse(r.body)) THEN "X"
  ELSE outcome

\* The tail shared by createTravelPlan, getTravelPlan and addLocation.
CheckedEntity(r, happy, success) ==
  IF r.status # happy THEN Null
  ELSE IF success # "T" THEN Null
  ELSE IF JSON_parse_throws(r.body) THEN Null
  ELSE LET entity == JSON_parse(r.body)
       IN IF PropThrows(entity) THEN Null ELSE entity

createTravelPlan_hasValidUUID(body) == UuidRegExp_test(JS_String(Prop(body, "id")))
createTravelPlan_hasVersion1(body) == StrictEq(Prop(body, "version"), Num(1))

createTravelPlan_return_unchecked(c, r) ==
  IF r.status # 201 \/ JSON_parse_throws(r.body) THEN Null ELSE JSON_parse(r.body)

createTravelPlan_return(c, r) ==
  LET success == check(<<Outcome(r.status = 201),
                         GuardedBodyCheck(r, 201, createTravelPlan_hasValidUUID(JSON_parse(r.body))),
                         GuardedBodyCheck(r, 201, createTravelPlan_hasVersion1(JSON_parse(r.body)))>>)
  IN CheckedEntity(r, 201, success)

getTravelPlan_hasLocations(body) == Array_isArray(Prop(body, "locations"))

getTravelPlan_return(c, r) ==
  LET checksPassed == check(<<Outcome(r.status = 200),
                              GuardedBodyCheck(r, 200, getTravelPlan_hasLocations(JSON_parse(r.body)))>>)
  IN CheckedEntity(r, 200, checksPassed)

verifyPlanDeleted_return_not200(c, r) == Bool(r.status # 200)

verifyPlanDeleted_return(c, r) ==
  LET isDeleted == check(<<Outcome(r.status = 404)>>)
  IN Bool(isDeleted = "T")

updateTravelPlan_versionIncremented(c, body) ==
  Outcome(StrictEq(Prop(body, "version"), Num(Prop(c.data, "version").v + 1)))

updateTravelPlan_return(c, r) ==
  LET checked == check(<<Outcome(r.status = 200),
                         UnguardedBodyCheck(r, 200,
                           updateTravelPlan_versionIncremented(c, JSON_parse(r.body)))>>)
  IN IF checked = "X"
       THEN Thrown(IF JSON_parse_throws(r.body) THEN "SyntaxError" ELSE "TypeError")
     ELSE IF r.status = 200 THEN JSON_parse(r.body)
     ELSE IF r.status = 409
       THEN IF JSON_parse_throws(r.body) THEN Thrown("SyntaxError")
            ELSE Obj([conflict |-> Bool(TRUE), body |-> JSON_parse(r.body)])
     ELSE Null

deleteTravelPlan_return(c, r) ==
  Bool(check(<<Outcome(r.status = 204)>>) = "T")

addLocation_hasVisitOrder(body) ==
  LET visit_order == Prop(body, "visit_order")
  IN visit_order.t = "number" /\ visit_order.v >= 1

addLocation_linkedToPlan(c, body) ==
  StrictEq(Prop(body, "travel_plan_id"), Str(c.id))

addLocation_return(c, r) ==
  LET success == check(<<Outcome(r.status = 201),
                         GuardedBodyCheck(r, 201, addLocation_hasVisitOrder(JSON_parse(r.body))),
                         GuardedBodyCheck(r, 201, addLocation_linkedToPlan(c, JSON_parse(r.body)))>>)
  IN CheckedEntity(r, 201, success)

updateLocation_return(c, r) ==
  IF r.status = 200
    THEN IF JSON_parse_throws(r.body) THEN Thrown("SyntaxError") ELSE JSON_parse(r.body)
  ELSE Null

deleteLocation_return(c, r) ==
  Bool(check(<<Outcome(r.status = 204)>>) = "T")

listTravelPlans_return(c, r) ==
  LET checked == check(<<Outcome(r.status = 200),
                         IF r.status # 200 THEN "F"
                         ELSE IF JSON_parse_throws(r.body) THEN "X"
                         ELSE Outcome(Array_isArray(JSON_parse(r.body)))>>)
  IN IF checked = "X" THEN Thrown("SyntaxError")
     ELSE IF r.status = 200 THEN JSON_parse(r.body)
     ELSE Null

checkHealth_statusHealthy(body) ==
  Outcome(StrictEq(Prop(body, "status"), Str(<<"h","e","a","l","t","h","y">>)))

\* check() raised, with the exception the unguarded callback lets escape.
CheckResult(r, checked) ==
  IF checked = "X"
    THEN Thrown(IF JSON_parse_throws(r.body) THEN "SyntaxError" ELSE "TypeError")
  ELSE Bool(checked = "T")

checkHealth_return(c, r) ==
  CheckResult(r, check(<<Outcome(r.status = 200),
                         UnguardedBodyCheck(r, 200, checkHealth_statusHealthy(JSON_parse(r.body)))>>))

\* body.error && body.error.includes('Validation')
testValidation_errorPresent(body) ==
  LET error == Prop(body, "error")
  IN IF ~Truthy(error) THEN "F"
     ELSE IF error.t # "string" THEN "X"
     ELSE Outcome(String_includes(error.v, <<"V","a","l","i","d","a","t","i","o","n">>))

testValidation_return(c, r) ==
  CheckResult(r, check(<<Outcome(r.status = 400),
                         UnguardedBodyCheck(r, 400, testValidation_errorPresent(JSON_parse(r.body)))>>))

HelperReturn(c, r) ==
  CASE c.fn = "createTravelPlan" -> createTravelPlan_return(c, r)
    [] c.fn = "getTravelPlan" -> getTravelPlan_return(c, r)
    [] c.fn = "verifyPlanDeleted" -> verifyPlanDeleted_return(c, r)
    [] c.fn = "updateTravelPlan" -> updateTravelPlan_return(c, r)
    [] c.fn = "deleteTravelPlan" -> deleteTravelPlan_return(c, r)
    [] c.fn = "addLocation" -> addLocation_return(c, r)
    [] c.fn = "updateLocation" -> updateLocation_return(c, r)
    [] c.fn = "deleteLocation" -> deleteLocation_return(c, r)
    [] c.fn = "listTravelPlans" -> listTravelPlans_return(c, r)
    [] c.fn = "checkHealth" -> checkHealth_return(c, r)
    [] c.fn = "testValidation" -> testValidation_return(c, r)

\* ------------------------------------------------------------------ state
VARIABLES
  pc,            \* pc[vu]: where virtual user vu is in its current helper call
  call,          \* call[vu]: the helper invocation in progress
  request,       \* request[vu]: what makeRequest handed to http.request
  response,      \* response[vu]: the response http.request returned
  result,        \* result[vu]: what the helper returned to the scenario
  errorRate,     \* samples added to the Rate 'api_errors'
  conflictRate,  \* samples added to the Rate 'optimistic_lock_conflicts'
  invoked,       \* number of helper invocations so far
  sent,          \* number of HTTP requests sent so far
  got409,        \* number of responses received with status 409
  deleted        \* plan ids for which deleteTravelPlan has returned true

vars == <<pc, call, request, response, result, errorRate, conflictRate,
          invoked, sent, got409, deleted>>

NoCall == Invocation("", <<>>, Null, "")
NoRequest == [method |-> "", url |-> ENDPOINTS_HEALTH, hasPayload |-> FALSE,
              tags |-> [type |-> ""], expectedStatuses |-> <<>>]
NoResponse == [status |-> 0, body |-> ""]

VUs == DOMAIN pc

InitOf(n) ==
  /\ pc = [vu \in 1..n |-> "idle"]
  /\ call = [vu \in 1..n |-> NoCall]
  /\ request = [vu \in 1..n |-> NoRequest]
  /\ response = [vu \in 1..n |-> NoResponse]
  /\ result = [vu \in 1..n |-> Undefined]
  /\ errorRate = <<>>
  /\ conflictRate = <<>>
  /\ invoked = 0
  /\ sent = 0
  /\ got409 = 0
  /\ deleted = {}

\* The scenario of virtual user vu calls a helper.
Call(vu, c) ==
  /\ pc[vu] = "idle"
  /\ invoked < MaxCalls
  /\ call' = [call EXCEPT ![vu] = c]
  /\ invoked' = invoked + 1
  /\ pc' = [pc EXCEPT ![vu] = "request"]
  /\ UNCHANGED <<request, response, result, errorRate, conflictRate, sent, got409, deleted>>

\* makeRequest builds params and calls http.request.
Send(vu) ==
  /\ pc[vu] = "request"
  /\ request' = [request EXCEPT ![vu] = makeRequest_request(HelperArgs(call[vu]))]
  /\ sent' = sent + 1
  /\ pc' = [pc EXCEPT ![vu] = "waiting"]
  /\ UNCHANGED <<call, response, result, errorRate, conflictRate, invoked, got409, deleted>>

\* http.request returns the service's response.
Receive(vu, status, body) ==
  /\ pc[vu] = "waiting"
  /\ response' = [response EXCEPT ![vu] = [status |-> status, body |-> body]]
  /\ got409' = IF status = 409 THEN got409 + 1 ELSE got409
  /\ pc' = [pc EXCEPT ![vu] = "check"]
  /\ UNCHANGED <<call, request, result, errorRate, conflictRate, invoked, sent, deleted>>

\* makeRequest checks the status and adds to errorRate.
RecordError(vu) ==
  /\ pc[vu] = "check"
  /\ errorRate' = errorRate \o makeRequest_errorSamples(request[vu].expectedStatuses, response[vu])
  /\ pc' = [pc EXCEPT ![vu] = "conflict"]
  /\ UNCHANGED <<call, request, response, result, conflictRate, invoked, sent, got409, deleted>>

\* makeRequest adds to conflictRate and returns the response to the helper.
RecordConflict(vu) ==
  /\ pc[vu] = "conflict"
  /\ conflictRate' =
       conflictRate \o makeRequest_conflictSamples(request[vu].expectedStatuses, response[vu])
  /\ pc' = [pc EXCEPT ![vu] = "helper"]
  /\ UNCHANGED <<call, request, response, result, errorRate, invoked, sent, got409, deleted>>

\* The helper checks the response and returns (or raises) to the scenario.
Return(vu) ==
  /\ pc[vu] = "helper"
  /\ result' = [result EXCEPT ![vu] = HelperReturn(call[vu], response[vu])]
  /\ deleted' = IF call[vu].fn = "deleteTravelPlan" /\ result'[vu] = Bool(TRUE)
                  THEN deleted \cup {call[vu].id} ELSE deleted
  /\ pc' = [pc EXCEPT ![vu] = "returned"]
  /\ UNCHANGED <<call, request, response, errorRate, conflictRate, invoked, sent, got409>>

\* The scenario goes on; the locals of the finished call are gone.
Resume(vu) ==
  /\ pc[vu] = "returned"
  /\ call' = [call EXCEPT ![vu] = NoCall]
  /\ request' = [request EXCEPT ![vu] = NoRequest]
  /\ response' = [response EXCEPT ![vu] = NoResponse]
  /\ result' = [result EXCEPT ![vu] = Undefined]
  /\ pc' = [pc EXCEPT ![vu] = "idle"]
  /\ UNCHANGED <<errorRate, conflictRate, invoked, sent, got409, deleted>>

\* One virtual user, every helper, every response.
Init == InitOf(1)

Next ==
  \E vu \in VUs :
    \/ \E c \in Invocations : Call(vu, c)
    \/ Send(vu)
    \/ \E status \in Statuses, body \in Bodies : Receive(vu, status, body)
    \/ RecordError(vu)
    \/ RecordConflict(vu)
    \/ Return(vu)
    \/ Resume(vu)

Spec == Init /\ [][Next]_vars

\* NumVUs virtual users in parallel, reduced inputs.
InitVU == InitOf(NumVUs)

NextVU ==
  \E vu \in VUs :
    \/ \E c \in InvocationsVU : Call(vu, c)
    \/ Send(vu)
    \/ \E status \in StatusesVU, body \in BodiesVU : Receive(vu, status, body)
    \/ RecordError(vu)
    \/ RecordConflict(vu)
    \/ Return(vu)
    \/ Resume(vu)

SpecVU == InitVU /\ [][NextVU]_vars

\* ============================================================ properties
Last(s) == s[Len(s)]
AfterError == {"conflict", "helper", "returned"}
AfterConflict == {"helper", "returned"}
InFlight == {"waiting", "check", "conflict", "helper", "returned"}
AllIdle == \A vu \in VUs : pc[vu] = "idle"

\* The acceptable-status set S of an expectedStatuses argument: a single
\* number stands for the one-element set.
AcceptableSet(expectedStatuses) ==
  IF expectedStatuses.t = "number" THEN {expectedStatuses.v}
  ELSE {expectedStatuses.v[i].v : i \in 1..Len(expectedStatuses.v)}

S(vu) == AcceptableSet(HelperArgs(call[vu]).expectedStatuses)

\* The helper of vu has returned (or raised) and the scenario has not resumed.
Returned(vu, fn) == pc[vu] = "returned" /\ call[vu].fn = fn

\* C1: every makeRequest call adds exactly one sample to api_errors, 0 when
\* the response status is in the acceptable set S and 1 when it is not.
C1_ErrorSample ==
  \A vu \in VUs :
    /\ pc[vu] \in {"idle", "request"} => Len(errorRate) = sent
    /\ pc[vu] \in {"waiting", "check"} => Len(errorRate) = sent - 1
    /\ pc[vu] \in AfterError =>
         /\ Len(errorRate) = sent
         /\ Last(errorRate) = IF response[vu].status \in S(vu) THEN 0 ELSE 1

C1_Witness ==
  \E vu \in VUs :
    /\ pc[vu] = "conflict"
    /\ call[vu].fn = "updateTravelPlan"
    /\ response[vu].status = 500
    /\ errorRate = <<0, 1>>

\* C2: optimistic_lock_conflicts receives a sample of 1 exactly for the
\* responses with status 409, whether or not 409 is acceptable, and nothing
\* for any other status.
C2_ConflictSample ==
  /\ \A i \in 1..Len(conflictRate) : conflictRate[i] = 1
  /\ \A vu \in VUs :
       /\ pc[vu] \in {"idle", "request", "waiting"} \cup AfterConflict =>
            Len(conflictRate) = got409
       /\ pc[vu] \in {"check", "conflict"} =>
            Len(conflictRate) = got409 - (IF response[vu].status = 409 THEN 1 ELSE 0)

C2_Witness ==
  \E vu \in VUs :
    /\ pc[vu] = "helper"
    /\ response[vu].status = 409
    /\ 409 \in S(vu)
    /\ Last(errorRate) = 0
    /\ conflictRate = <<1, 1>>
    /\ got409 = 2

\* The helpers C3 names, their happy status and their failure value.
EntityHelpers ==
  {"createTravelPlan", "getTravelPlan", "updateTravelPlan", "addLocation",
   "updateLocation", "listTravelPlans", "checkHealth", "testValidation"}

HappyStatus(fn) ==
  CASE fn \in {"createTravelPlan", "addLocation"} -> 201
    [] fn = "testValidation" -> 400
    [] OTHER -> 200

FailureValue(fn) ==
  IF fn \in {"checkHealth", "testValidation"} THEN Bool(FALSE) ELSE Null

\* C3: an entity helper that receives its happy status with a body that is
\* not valid JSON returns its failure value (null, or false for the boolean
\* helpers) and raises nothing.
C3_MalformedBodyFails ==
  \A vu \in VUs :
    ( /\ pc[vu] = "returned"
      /\ call[vu].fn \in EntityHelpers
      /\ response[vu].status = HappyStatus(call[vu].fn)
      /\ JSON_parse_throws(response[vu].body) )
    => StrictEq(result[vu], FailureValue(call[vu].fn))

ConflictMarker(body) == Obj([conflict |-> Bool(TRUE), body |-> JSON_parse(body)])

\* C4: updateTravelPlan called with version v returns, for status 200, only
\* an entity whose version is v+1; for status 409 the marker
\* {conflict: true, body: <parsed body>}; for every other status null.
C4_UpdateContract ==
  \A vu \in VUs :
    (Returned(vu, "updateTravelPlan") /\ ~JSON_parse_throws(response[vu].body)) =>
      LET v == Prop(call[vu].data, "version").v
      IN /\ (response[vu].status = 200 /\ result[vu].t = "object") =>
              StrictEq(Prop(result[vu], "version"), Num(v + 1))
         /\ response[vu].status = 409 =>
              StrictEq(result[vu], ConflictMarker(response[vu].body))
         /\ response[vu].status \notin {200, 409} => StrictEq(result[vu], Null)

\* C5: every update helper (updateTravelPlan, updateLocation) that receives
\* status 409 returns the conflict marker, not null.
C5_UpdateConflictMarker ==
  \A vu \in VUs :
    ( /\ pc[vu] = "returned"
      /\ call[vu].fn \in {"updateTravelPlan", "updateLocation"}
      /\ response[vu].status = 409
      /\ ~JSON_parse_throws(response[vu].body) )
    => StrictEq(result[vu], ConflictMarker(response[vu].body))

IsHexDigit(ch) == ch \in {"0","1","2","3","4","5","6","7","8","9","a","b","c","d","e","f"}

\* The 8-4-4-4-12 lower-case hexadecimal text of a UUID.
IsUuidText(s) ==
  /\ Len(s) = 36
  /\ \A i \in {9, 14, 19, 24} : s[i] = "-"
  /\ \A i \in (1..36) \ {9, 14, 19, 24} : IsHexDigit(s[i])

\* The text of a version-4 UUID: version digit 4, variant digit 8, 9, a or b.
IsUuidV4Text(s) == IsUuidText(s) /\ s[15] = "4" /\ s[20] \in {"8", "9", "a", "b"}

\* The text of the id of a parsed body ("undefined" when it has none).
IdText(value) == JS_String(Prop(value, "id"))

\* createTravelPlan's contract for an id format: UUID v4 text when v4 is
\* TRUE, UUID text otherwise.
CreateContract(vu, v4) ==
  LET r == response[vu]
      Format(s) == IF v4 THEN IsUuidV4Text(s) ELSE IsUuidText(s)
      good == /\ r.status = 201
              /\ ~JSON_parse_throws(r.body)
              /\ JSON_parse(r.body).t = "object"
              /\ StrictEq(Prop(JSON_parse(r.body), "version"), Num(1))
              /\ Format(IdText(JSON_parse(r.body)))
  IN /\ result[vu].t \in {"null", "object"}
     /\ result[vu].t = "object" =>
          /\ r.status = 201
          /\ StrictEq(Prop(result[vu], "version"), Num(1))
          /\ Format(IdText(result[vu]))
     /\ ~good => StrictEq(result[vu], Null)

\* C6 as stated: a non-null result of createTravelPlan has status 201,
\* version 1 and an id in UUID v4 text format; any other response gives null.
C6_CreateUuidV4 ==
  \A vu \in VUs : Returned(vu, "createTravelPlan") => CreateContract(vu, TRUE)

\* C6 amended: a non-null result of createTravelPlan has status 201, version 1
\* and an id in the 8-4-4-4-12 lower-case hexadecimal UUID text format (the
\* version and variant digits are not checked); any other response gives null.
C6_CreateUuidText ==
  \A vu \in VUs : Returned(vu, "createTravelPlan") => CreateContract(vu, FALSE)

C6_Witness ==
  \E vu \in VUs :
    /\ Returned(vu, "createTravelPlan")
    /\ response[vu].status = 201
    /\ result[vu] = PlanObject(UuidV1, 1)

\* verifyPlanDeleted sends a GET, tagged read, for the plan id it was given
\* and returns true exactly when the status is 404.
VerifyContract(vu) ==
  /\ request[vu].method = "GET"
  /\ request[vu].url = ENDPOINTS_TRAVEL_PLAN_BY_ID(call[vu].id)
  /\ result[vu].t = "boolean"
  /\ result[vu].v <=> response[vu].status = 404

\* C7 as stated: once deleteTravelPlan(id) has returned true, verifyPlanDeleted(id)
\* sends a GET for the same id that yields 404, returns true and records 0 in
\* api_errors; verifyPlanDeleted returns true exactly when the status is 404.
C7_DeleteThenVerify ==
  \A vu \in VUs :
    Returned(vu, "verifyPlanDeleted") =>
      /\ VerifyContract(vu)
      /\ call[vu].id \in deleted =>
           /\ response[vu].status = 404
           /\ result[vu] = Bool(TRUE)
           /\ Last(errorRate) = 0

\* C7 amended: once deleteTravelPlan(id) has returned true, verifyPlanDeleted(id)
\* sends a GET for the same id; when that GET yields 404 it returns true and
\* records 0 in api_errors, and when the service answers anything else it
\* returns false and records 1; verifyPlanDeleted returns true exactly when
\* the status is 404.
C7_VerifyFollowsStatus ==
  \A vu \in VUs :
    Returned(vu, "verifyPlanDeleted") =>
      /\ VerifyContract(vu)
      /\ call[vu].id \in deleted =>
           IF response[vu].status = 404
             THEN result[vu] = Bool(TRUE) /\ Last(errorRate) = 0
             ELSE result[vu] = Bool(FALSE) /\ Last(errorRate) = 1

C7_Witness ==
  \E vu \in VUs :
    /\ Returned(vu, "verifyPlanDeleted")
    /\ call[vu].id \in deleted
    /\ response[vu].status = 404
    /\ result[vu] = Bool(TRUE)
    /\ errorRate = <<0, 0>>

\* C8: every non-null value listTravelPlans returns is an array, and a 200
\* response with the body of an empty collection gives the empty array.
C8_ListReturnsArray ==
  \A vu \in VUs :
    Returned(vu, "listTravelPlans") =>
      /\ result[vu].t \notin {"null", "throw"} => result[vu].t = "array"
      /\ (response[vu].status = 200 /\ response[vu].body = BodyEmptyList) =>
           StrictEq(result[vu], Arr(<<>>))

\* C9: the type tag of every outgoing request is 'read' when the method is
\* GET and 'write' for every other method.
C9_TagFollowsMethod ==
  \A vu \in VUs :
    pc[vu] \in InFlight =>
      request[vu].tags.type = IF request[vu].method = "GET" THEN "read" ELSE "write"

\* C10: under any interleaving of the virtual users each helper invocation
\* sends exactly one request, and when no call is in flight api_errors has one
\* sample per request sent and optimistic_lock_conflicts one per 409 received.
C10_OneRequestPerCall ==
  /\ sent = invoked - Cardinality({vu \in VUs : pc[vu] = "request"})
  /\ AllIdle =>
       /\ sent = invoked
       /\ Len(errorRate) = sent
       /\ Len(conflictRate) = got409

C10_Witness ==
  /\ AllIdle
  /\ Cardinality(VUs) >= 2
  /\ sent >= 2
  /\ got409 >= 1
  /\ \E i \in 1..Len(errorRate) : errorRate[i] = 1

====
